---- MODULE Spec2Model ----
(***************************************************************************)
(* Model of src/main.py: the /upload-image request handler (upload_image), *)
(* the Analyzer (analyze_image) and the Notifier                           *)
(* (send_image_and_analysis_to_telegram), run by NumReq concurrent         *)
(* requests over one transient storage directory.                          *)
(*                                                                         *)
(* One action is one scheduling step of a request coroutine: the awaited   *)
(* operation completes and the coroutine runs synchronously up to its next *)
(* await (or to its raise / return).                                       *)
(***************************************************************************)
EXTENDS Integers, Sequences, FiniteSets, TLC

\* ------------------------------------------------------------------ bounds

\* Number of concurrent requests.
NumReq == 2

Requests == 1..NumReq

\* ------------------------------------------------------- program constants

\* main.py:66  UPLOAD_FOLDER = './uploads'   (a path is a sequence of tokens)
UPLOAD_FOLDER == <<".", "/", "uploads">>

\* main.py:70  ALLOWED_MIME_TYPES = {'image/jpeg'}
ALLOWED_MIME_TYPES == {"image/jpeg"}

\* ------------------------------------------------------------------ inputs

\* Declared content types a client may send.
ContentTypes == {"image/jpeg", "image/jpg", "application/pdf"}

\* Client-supplied filenames, as token sequences: "photo.jpg",
\* "../photo.jpg" (path traversal, same final component), "bird.jpg",
\* "doc.pdf", "photo.jpg/" (ends in a separator), "..".
ClientNames ==
  { <<"photo", ".jpg">>,
    <<"..", "/", "photo", ".jpg">>,
    <<"bird", ".jpg">>,
    <<"doc", ".pdf">>,
    <<"photo", ".jpg", "/">>,
    <<"..">> }

\* Uploaded bytes: real JPEG data or text bytes.
Bodies == {"JPEG", "TEXT"}

\* Texts the inference endpoint may put in choices[0].message.content.
Texts == {"", "detected: no"}

\* Statuses the inference endpoint may answer with.
Statuses == {200, 500}

\* Outcomes of the inference HTTP call: a response (status, body) or a
\* transport error (timeout, connection failure).  A body is either JSON of
\* the expected shape carrying a text in choices[0].message.content, or
\* something that does not parse to that shape.
InferenceOutcomes ==
  { [kind |-> "response", status |-> c, parsable |-> TRUE, text |-> t] :
      c \in Statuses, t \in Texts }
  \cup { [kind |-> "response", status |-> c, parsable |-> FALSE, text |-> ""] :
           c \in Statuses }
  \cup { [kind |-> "timeout", status |-> 0, parsable |-> FALSE, text |-> ""] }

NoInference == [kind |-> "none", status |-> 0, parsable |-> FALSE, text |-> ""]

\* ------------------------------------------------------------ pure helpers

\* Index of the last "/" token of p, 0 when there is none.
LastSep(p) ==
  LET S == { i \in 1..Len(p) : p[i] = "/" }
  IN  IF S = {} THEN 0 ELSE CHOOSE i \in S : \A j \in S : j <= i

\* main.py:81  os.path.basename: everything after the last separator.
Basename(p) == SubSeq(p, LastSep(p) + 1, Len(p))

\* main.py:82  os.path.join(UPLOAD_FOLDER, filename)
Join(dir, name) == dir \o <<"/">> \o name

\* main.py:81-82  the storage path of a client-supplied name.
FilePath(name) == Join(UPLOAD_FOLDER, Basename(name))

\* The paths requests can address.
Paths == { FilePath(n) : n \in ClientNames }

\* A path that names a directory that exists from startup (main.py:67):
\* the upload folder itself ("./uploads/") or its "." / ".." entries.
IsDirectory(p) == Basename(p) \in { <<>>, <<".">>, <<"..">> }

\* posixpath.splitext as used by mimetypes.guess_type: the extension is the
\* last token when it is an extension token and a name precedes it.
SplitExt(p) ==
  LET b == Basename(p)
  IN  IF Len(b) >= 2
         /\ b[Len(b)] \in {".jpg", ".pdf"}
         /\ \E i \in 1..(Len(b) - 1) : b[i] \notin {"..", "."}
      THEN b[Len(b)] ELSE ""

\* main.py:91  mimetypes.guess_type(filepath): decided by the extension of
\* the path alone; the stored bytes are not read.
GuessType(p) ==
  CASE SplitExt(p) = ".jpg" -> "image/jpeg"
    [] SplitExt(p) = ".pdf" -> "application/pdf"
    [] OTHER -> "None"

\* Mutant of Allowed: the type check accepts whatever it is given.
Allowed_any(t) == TRUE

\* main.py:76 and main.py:92  membership in ALLOWED_MIME_TYPES.
Allowed(t) == t \in ALLOWED_MIME_TYPES

\* Optional values: None, or Some(v).
None == <<>>
Some(v) == <<v>>

\* main.py:102  Python truthiness of the analysis result: None and the
\* empty string are both false.
Truthy(a) == a # None /\ a[1] # ""

\* Mutant of AnalyzerResult: the status check is missing, any body of the
\* expected shape yields its text.
AnalyzerResult_noStatusCheck(o) ==
  IF o.kind = "response" /\ o.parsable THEN Some(o.text) ELSE None

\* Mutant of AnalyzerResult: an empty answer is turned into None.
AnalyzerResult_dropsEmpty(o) ==
  IF o.kind = "response" /\ o.status = 200 /\ o.parsable /\ o.text # ""
  THEN Some(o.text)
  ELSE None

\* main.py:158-170  what analyze_image returns for an outcome of the call.
AnalyzerResult(o) ==
  IF o.kind = "response" /\ o.status = 200 /\ o.parsable
  THEN Some(o.text)
  ELSE None

\* --------------------------------------------------------------- responses

NoResponse == [status |-> 0, detail |-> ""]
\* main.py:78
InvalidFormat == [status |-> 400, detail |-> "Invalid file format, only JPEG images are accepted"]
\* main.py:95
InvalidContent == [status |-> 400, detail |-> "Invalid image content"]
\* main.py:105
AnalysisFailed == [status |-> 500, detail |-> "Failed to analyze the image"]
\* main.py:113
DeliveryFailed == [status |-> 500, detail |-> "Failed to send image to Telegram"]
\* main.py:119
Success == [status |-> 200, detail |-> "Image received, analyzed, and forwarded to Telegram"]
\* An exception that leaves upload_image without being turned into an
\* HTTPException: the framework answers 500 on the handler's behalf.
Fault == [status |-> 500, detail |-> "unhandled exception"]

\* ------------------------------------------------------------------- state

VARIABLES
  pc,         \* pc[r]: where request r's coroutine is suspended
  declared,   \* declared[r]: image.content_type
  filename,   \* filename[r]: image.filename as sent by the client
  content,    \* content[r]: the uploaded bytes
  fs,         \* fs[p]: the file linked at path p (0: none); a file is named by the request whose open created it
  data,       \* data[i]: the bytes of file i ("" when empty)
  fd,         \* fd[r]: the file r opened for writing (0: none)
  photo,      \* photo[r]: the file r's Notifier opened for reading (0: none)
  encoded,    \* encoded[r]: the bytes the Analyzer read (None before)
  inferred,   \* inferred[r]: the outcome of r's inference call
  analysis,   \* analysis[r]: analysis_result
  response,   \* response[r]: the response of request r
  sent,       \* sent[r]: the messages r delivered to the chat, in order
  raised,     \* raised[r]: the send of r the messaging provider failed ("": none)
  calls,      \* calls[r]: inference calls issued by r
  persisted,  \* persisted[r]: r's write completed
  rmCalls,    \* rmCalls[r]: calls of aiofiles_os.remove by r
  rmDone      \* rmDone[r]: calls of aiofiles_os.remove by r that removed a file

vars == << pc, declared, filename, content, fs, data, fd, photo, encoded,
           inferred, analysis, response, sent, raised, calls, persisted,
           rmCalls, rmDone >>

\* Mutant of filepath: every upload is stored under one fixed name.
filepath_fixedName(r) == FilePath(<<"photo", ".jpg">>)

\* The storage path of request r.
filepath(r) == FilePath(filename[r])

Init ==
  /\ pc = [r \in Requests |-> "received"]
  /\ declared \in [Requests -> ContentTypes]
  /\ filename \in [Requests -> ClientNames]
  /\ content \in [Requests -> Bodies]
  /\ fs = [p \in Paths |-> 0]
  /\ data = [i \in Requests |-> ""]
  /\ fd = [r \in Requests |-> 0]
  /\ photo = [r \in Requests |-> 0]
  /\ encoded = [r \in Requests |-> None]
  /\ inferred = [r \in Requests |-> NoInference]
  /\ analysis = [r \in Requests |-> None]
  /\ response = [r \in Requests |-> NoResponse]
  /\ sent = [r \in Requests |-> <<>>]
  /\ raised = [r \in Requests |-> ""]
  /\ calls = [r \in Requests |-> 0]
  /\ persisted = [r \in Requests |-> FALSE]
  /\ rmCalls = [r \in Requests |-> 0]
  /\ rmDone = [r \in Requests |-> 0]

\* The request ends with response resp.
Finish(r, resp) ==
  /\ pc' = [pc EXCEPT ![r] = "done"]
  /\ response' = [response EXCEPT ![r] = resp]

Goto(r, l) ==
  /\ pc' = [pc EXCEPT ![r] = l]
  /\ UNCHANGED response

\* main.py:75-85  declared-type check, then the path is derived and the
\* open of the storage file is awaited.
Validate(r) ==
  /\ pc[r] = "received"
  /\ IF ~Allowed(declared[r])
     THEN Finish(r, InvalidFormat)
     ELSE Goto(r, "open")
  /\ UNCHANGED << declared, filename, content, fs, data, fd, photo, encoded,
                  inferred, analysis, sent, calls, persisted, rmCalls, rmDone, raised >>

\* main.py:85  aiofiles.open(filepath, "wb"): raises on a directory, else
\* creates the file or truncates the one that is there.
OpenFile(r) ==
  /\ pc[r] = "open"
  /\ LET p == filepath(r) IN
     IF IsDirectory(p)
     THEN /\ Finish(r, Fault)
          /\ UNCHANGED << fs, data, fd >>
     ELSE /\ Goto(r, "write")
          /\ IF fs[p] = 0
             THEN /\ fs' = [fs EXCEPT ![p] = r]
                  /\ data' = [data EXCEPT ![r] = ""]
                  /\ fd' = [fd EXCEPT ![r] = r]
             ELSE /\ fs' = fs
                  /\ data' = [data EXCEPT ![fs[p]] = ""]
                  /\ fd' = [fd EXCEPT ![r] = fs[p]]
  /\ UNCHANGED << declared, filename, content, photo, encoded, inferred,
                  analysis, sent, calls, persisted, rmCalls, rmDone, raised >>

\* Mutant of AfterRemove: the except branch lacks its raise and falls
\* through to the removal of the success path.
AfterRemove_fallthrough(l) ==
  CASE l = "rm_content"  -> "resp_content"
    [] l = "rm_analysis" -> "resp_analysis"
    [] l = "rm_delivery" -> "rm_success"
    [] l = "rm_success"  -> "resp_success"

\* main.py:93-95, 103-105, 112-113, 116-119  what follows each removal.
AfterRemove(l) ==
  CASE l = "rm_content"  -> "resp_content"
    [] l = "rm_analysis" -> "resp_analysis"
    [] l = "rm_delivery" -> "resp_delivery"
    [] l = "rm_success"  -> "resp_success"

\* Mutant of ResponseOf: the delivery-error branch answers like the success
\* path.
ResponseOf_deliveryOk(l) ==
  CASE l = "resp_content"  -> InvalidContent
    [] l = "resp_analysis" -> AnalysisFailed
    [] l = "resp_delivery" -> Success
    [] l = "resp_success"  -> Success

\* main.py:95, 105, 113, 119  the response each branch ends with.
ResponseOf(l) ==
  CASE l = "resp_content"  -> InvalidContent
    [] l = "resp_analysis" -> AnalysisFailed
    [] l = "resp_delivery" -> DeliveryFailed
    [] l = "resp_success"  -> Success

\* Mutant of AfterWrite: the content check is missing and every stored file
\* goes to the Analyzer.
AfterWrite_noSniff(p) == "read"

\* main.py:91-95  after the write: the content check on the stored file.
AfterWrite(p) == IF ~Allowed(GuessType(p)) THEN "rm_content" ELSE "read"

\* Mutant of OnNoAnalysis: the abort on a failed analysis skips the removal.
OnNoAnalysis_noCleanup == "resp_analysis"

\* Mutant of OnNoAnalysis: a failed analysis is tried again.
OnNoAnalysis_retry == "infer"

\* main.py:102-103  the handler's branch on a false analysis result.
OnNoAnalysis == "rm_analysis"

\* Mutant of OnDeliveryError: the exception is swallowed and the handler
\* carries on as after a delivery.
OnDeliveryError_swallowed == "rm_success"

\* main.py:110-112  the handler's branch on an exception from the Notifier.
OnDeliveryError == "rm_delivery"

\* Mutant of OnPhotoError: a failed photo send is ignored and the Notifier
\* goes on to the text message.
OnPhotoError_ignored == "send_text"

\* main.py:194-196  an error of the photo send is re-raised by the Notifier,
\* which skips the text send, and reaches the handler's except branch.
OnPhotoError == OnDeliveryError

\* Mutant of Unlink: the cleanup empties the whole upload folder.
Unlink_all(f, p) == [q \in DOMAIN f |-> 0]

\* os.remove: the storage with path p unlinked.
Unlink(f, p) == [f EXCEPT ![p] = 0]

\* main.py:86-95  the upload is read, written and the file closed (or the
\* write raises, e.g. on a full disk, and nothing cleans up); then the
\* content check runs and the handler awaits a removal or the Analyzer.
WriteFile(r) ==
  /\ pc[r] = "write"
  /\ \/ /\ data' = [data EXCEPT ![fd[r]] = content[r]]
        /\ persisted' = [persisted EXCEPT ![r] = TRUE]
        /\ Goto(r, AfterWrite(filepath(r)))
     \/ /\ Finish(r, Fault)
        /\ UNCHANGED << data, persisted >>
  /\ UNCHANGED << declared, filename, content, fs, fd, photo, encoded, inferred,
                  analysis, sent, calls, rmCalls, rmDone, raised >>

\* main.py:100-109 and 174-181  analyze_image returned a: the handler aborts
\* on a false result, else the Notifier opens the stored file (an absent
\* file raises, which the handler catches) and awaits the photo send.
AnalyzerReturn(r, a) ==
  /\ analysis' = [analysis EXCEPT ![r] = a]
  /\ IF ~Truthy(a)
     THEN /\ Goto(r, OnNoAnalysis)
          /\ UNCHANGED photo
     ELSE IF fs[filepath(r)] = 0
     THEN /\ Goto(r, OnDeliveryError)
          /\ UNCHANGED photo
     ELSE /\ Goto(r, "send_photo")
          /\ photo' = [photo EXCEPT ![r] = fs[filepath(r)]]

\* main.py:122-125, 168-170  the Analyzer reads the stored file; a missing
\* file raises inside the try block and the Analyzer returns None.
ReadImage(r) ==
  /\ pc[r] = "read"
  /\ IF fs[filepath(r)] = 0
     THEN /\ AnalyzerReturn(r, None)
          /\ UNCHANGED encoded
     ELSE /\ encoded' = [encoded EXCEPT ![r] = Some(data[fs[filepath(r)]])]
          /\ Goto(r, "infer")
          /\ UNCHANGED << analysis, photo >>
  /\ UNCHANGED << declared, filename, content, fs, data, fd, inferred, sent,
                  calls, persisted, rmCalls, rmDone, raised >>

\* main.py:142-170  the one POST to the inference endpoint and its outcome.
Infer(r) ==
  /\ pc[r] = "infer"
  /\ \E o \in InferenceOutcomes :
       /\ inferred' = [inferred EXCEPT ![r] = o]
       /\ AnalyzerReturn(r, AnalyzerResult(o))
  /\ calls' = [calls EXCEPT ![r] = @ + 1]
  /\ UNCHANGED << declared, filename, content, fs, data, fd, encoded, sent,
                  persisted, rmCalls, rmDone, raised >>

\* main.py:180-186, 194-196  bot.send_photo reads the opened file and
\* delivers it, or raises.
SendPhoto(r) ==
  /\ pc[r] = "send_photo"
  /\ \/ /\ sent' = [sent EXCEPT ![r] = Append(@, [kind |-> "photo", body |-> data[photo[r]]])]
        /\ Goto(r, "send_text")
        /\ UNCHANGED raised
     \/ /\ Goto(r, OnPhotoError)
        /\ raised' = [raised EXCEPT ![r] = "photo"]
        /\ UNCHANGED sent
  /\ photo' = [photo EXCEPT ![r] = 0]
  /\ UNCHANGED << declared, filename, content, fs, data, fd, encoded, inferred,
                  analysis, calls, persisted, rmCalls, rmDone >>

\* main.py:188-196  bot.send_message delivers the analysis text, or raises.
SendText(r) ==
  /\ pc[r] = "send_text"
  /\ \/ /\ sent' = [sent EXCEPT ![r] = Append(@, [kind |-> "text", body |-> analysis[r][1]])]
        /\ Goto(r, "rm_success")
        /\ UNCHANGED raised
     \/ /\ Goto(r, OnDeliveryError)
        /\ raised' = [raised EXCEPT ![r] = "text"]
        /\ UNCHANGED sent
  /\ UNCHANGED << declared, filename, content, fs, data, fd, photo, encoded,
                  inferred, analysis, calls, persisted, rmCalls, rmDone >>

RemoveLabels == {"rm_content", "rm_analysis", "rm_delivery", "rm_success"}
RespondLabels == {"resp_content", "resp_analysis", "resp_delivery", "resp_success"}

\* main.py:93, 103, 112, 116  aiofiles_os.remove(filepath): unlinks the
\* file, or raises FileNotFoundError when the path is absent; no caller
\* catches that.
Remove(r) ==
  /\ pc[r] \in RemoveLabels
  /\ rmCalls' = [rmCalls EXCEPT ![r] = @ + 1]
  /\ IF fs[filepath(r)] = 0
     THEN /\ Finish(r, Fault)
          /\ UNCHANGED << fs, rmDone >>
     ELSE /\ fs' = Unlink(fs, filepath(r))
          /\ rmDone' = [rmDone EXCEPT ![r] = @ + 1]
          /\ Goto(r, AfterRemove(pc[r]))
  /\ UNCHANGED << declared, filename, content, data, fd, photo, encoded,
                  inferred, analysis, sent, calls, persisted, raised >>

\* main.py:95, 105, 113, 117-119  the coroutine resumes after the removal
\* and raises its HTTPException or returns the 200 response.
Respond(r) ==
  /\ pc[r] \in RespondLabels
  /\ Finish(r, ResponseOf(pc[r]))
  /\ UNCHANGED << declared, filename, content, fs, data, fd, photo, encoded,
                  inferred, analysis, sent, calls, persisted, rmCalls, rmDone, raised >>

Next ==
  \E r \in Requests :
    \/ Validate(r)
    \/ OpenFile(r)
    \/ WriteFile(r)
    \/ ReadImage(r)
    \/ Infer(r)
    \/ SendPhoto(r)
    \/ SendText(r)
    \/ Remove(r)
    \/ Respond(r)

Spec == Init /\ [][Next]_vars

\* ------------------------------------------------------------ vocabulary

Done(r) == pc[r] = "done"

\* File i is linked at some path of the transient storage.
Exists(i) == \E p \in Paths : fs[p] = i

\* No other request that gets past the declared-type check addresses r's path.
Alone(r) ==
  \A q \in Requests \ {r} : ~Allowed(declared[q]) \/ filepath(q) # filepath(r)

\* The responses the handler itself produces.
ErrorResponses == {InvalidFormat, InvalidContent, AnalysisFailed, DeliveryFailed}
Categorized == {Success} \cup ErrorResponses

\* ------------------------------------------------------------------ claims

\* C1: a request that ended with one of the handler's error responses and had
\* opened its transient file leaves no such file: its removal succeeded, the
\* file it opened is linked nowhere, and when no other request addresses the
\* same path the path is empty.
C1_AbortLeavesNoFile ==
  \A r \in Requests :
    (Done(r) /\ response[r] \in ErrorResponses /\ fd[r] # 0)
      => /\ rmDone[r] = 1
         /\ ~Exists(fd[r])
         /\ (Alone(r) => fs[filepath(r)] = 0)

\* C1 witness: a delivery failure answered after the request created its file.
C1_Witness ==
  \E r \in Requests : Done(r) /\ response[r] = DeliveryFailed /\ fd[r] = r

\* C2: a request never calls the removal twice, and a request that persisted
\* its upload has called it exactly once when it completes; the file it wrote
\* is then linked nowhere, and the call removed the file whenever no other
\* request addresses the same path.
C2_RemovedExactlyOnce ==
  \A r \in Requests :
    /\ rmCalls[r] <= 1
    /\ rmDone[r] <= rmCalls[r]
    /\ (Done(r) /\ persisted[r])
         => /\ rmCalls[r] = 1
            /\ ~Exists(fd[r])
            /\ (Alone(r) => rmDone[r] = 1)

\* C2 witness: a completed success path and a completed failure path, each
\* with its one removal.
C2_Witness ==
  /\ \E r \in Requests : Done(r) /\ persisted[r] /\ response[r] = Success /\ rmDone[r] = 1
  /\ \E r \in Requests : Done(r) /\ persisted[r] /\ response[r] = AnalysisFailed /\ rmDone[r] = 1

\* C3: a request whose declared content type is not exactly image/jpeg never
\* opens, creates or writes a file, never calls the inference endpoint or the
\* messaging provider, and ends with the 400 InvalidFormat response.
C3_WrongDeclaredTypeRejected ==
  \A r \in Requests :
    declared[r] # "image/jpeg"
      => /\ pc[r] \in {"received", "done"}
         /\ fd[r] = 0 /\ ~Exists(r) /\ ~persisted[r]
         /\ calls[r] = 0 /\ sent[r] = <<>> /\ rmCalls[r] = 0
         /\ (Done(r) => response[r] = InvalidFormat /\ response[r].status = 400)

\* C3 witness: a near-miss declared type answered.
C3_Witness ==
  \E r \in Requests : declared[r] = "image/jpg" /\ Done(r)

\* C4 (as claimed): a request declared image/jpeg whose bytes are not JPEG
\* ends with a 400 response and makes no inference or messaging call.
C4_NonJpegBytesRejected ==
  \A r \in Requests :
    (Done(r) /\ declared[r] = "image/jpeg" /\ content[r] # "JPEG" /\ persisted[r])
      => /\ response[r].status = 400
         /\ calls[r] = 0
         /\ sent[r] = <<>>

\* C5 (as claimed): a request whose removal found the file absent still ends
\* with one of the handler's own responses.
C5_AbsentFileRemovalHandled ==
  \A r \in Requests :
    (Done(r) /\ rmCalls[r] > rmDone[r]) => response[r] \in Categorized

\* C6: once the messaging provider raised in the photo send or the text send
\* of a request whose analysis succeeded, the handler is in its delivery-error
\* branch; the request ends with status 500 after calling the removal once,
\* the file it wrote is linked nowhere, and the response is DeliveryFailed
\* unless the removal found the file gone, which only a request on the same
\* path can cause.
C6_DeliveryErrorCleansUp ==
  \A r \in Requests :
    raised[r] # ""
      => /\ Truthy(analysis[r])
         /\ pc[r] \in {"rm_delivery", "resp_delivery", "done"}
         /\ Done(r)
              => /\ response[r].status = 500
                 /\ response[r] \in {DeliveryFailed, Fault}
                 /\ rmCalls[r] = 1
                 /\ ~Exists(fd[r])
                 /\ (Alone(r) => response[r] = DeliveryFailed)

\* C6 witness: the text send raised after the photo was delivered, and the
\* request was answered DeliveryFailed.
C6_Witness ==
  \E r \in Requests :
    raised[r] = "text" /\ Len(sent[r]) = 1 /\ response[r] = DeliveryFailed

\* C7: after an inference call that timed out or answered a non-200 status
\* the analysis is None, no message is ever sent, the handler is in its
\* analysis-failure branch, and the request ends with status 500 after
\* calling the removal once with its file linked nowhere (AnalysisFailed
\* unless the removal found the file gone).
C7_InferenceFailureAborts ==
  \A r \in Requests :
    (inferred[r].kind = "timeout"
       \/ (inferred[r].kind = "response" /\ inferred[r].status # 200))
      => /\ analysis[r] = None
         /\ sent[r] = <<>> /\ raised[r] = ""
         /\ pc[r] \in {"rm_analysis", "resp_analysis", "done"}
         /\ Done(r)
              => /\ response[r].status = 500
                 /\ response[r] \in {AnalysisFailed, Fault}
                 /\ rmCalls[r] = 1
                 /\ ~Exists(fd[r])
                 /\ (Alone(r) => response[r] = AnalysisFailed)

\* C7 witness: a non-200 answer with a well-formed body, and a timeout, each
\* answered AnalysisFailed.
C7_Witness ==
  /\ \E r \in Requests :
       /\ inferred[r].status = 500 /\ inferred[r].parsable
       /\ inferred[r].text # "" /\ response[r] = AnalysisFailed
  /\ \E r \in Requests :
       inferred[r].kind = "timeout" /\ response[r] = AnalysisFailed

\* C8 (as claimed): a run with a valid declared and sniffed type, an analysis
\* text returned and both sends completed is answered 200 with the
\* confirmation message and leaves no transient file.
C8_DeliveredRunAnswers200 ==
  \A r \in Requests :
    ( /\ Done(r)
      /\ Allowed(declared[r])
      /\ Allowed(GuessType(filepath(r)))
      /\ AnalyzerResult(inferred[r]) # None
      /\ Len(sent[r]) = 2 )
      => response[r] = Success /\ ~Exists(fd[r])

\* C9 (as claimed): every request ends with one of the five categorized
\* outcomes, never with an unhandled fault.
C9_NoUnhandledFault ==
  \A r \in Requests : Done(r) => response[r] \in Categorized

\* C10: the analysis result is the first choice's message content exactly
\* when the inference call answered 200 with a body of the expected shape,
\* and None in every other case (no call made because the file could not be
\* read, a non-200 answer, a transport failure, a body that does not parse);
\* the Analyzer makes at most one call and never ends the request in a fault:
\* a fault occurs only before the upload is persisted or in a removal.
C10_AnalyzerTotal ==
  \A r \in Requests :
    /\ analysis[r] =
         IF inferred[r].kind = "response" /\ inferred[r].status = 200
            /\ inferred[r].parsable
         THEN Some(inferred[r].text)
         ELSE None
    /\ calls[r] = (IF inferred[r].kind = "none" THEN 0 ELSE 1)
    /\ (pc[r] \in {"read", "infer"} => response[r] = NoResponse)
    /\ (response[r] = Fault => ~persisted[r] \/ rmCalls[r] = 1)

\* C10 witness: an empty answer returned as it is by one request, and a
\* failed file read turned into None for another.
C10_Witness ==
  /\ \E r \in Requests :
       inferred[r].status = 200 /\ inferred[r].parsable /\ analysis[r] = Some("")
  /\ \E r \in Requests :
       /\ persisted[r] /\ encoded[r] = None /\ inferred[r].kind = "none"
       /\ Allowed(GuessType(filepath(r)))
       /\ pc[r] = "rm_analysis"

\* Message i of request r's deliveries is of kind k.
IsKind(r, i, k) == i \in 1..Len(sent[r]) /\ sent[r][i].kind = k

\* C11: a text message of a request is always its second delivery, right
\* after its delivered photo; while the text send is pending the photo has
\* been delivered; and a request whose photo send raised never delivers a
\* text (it delivers nothing).
C11_TextOnlyAfterPhoto ==
  \A r \in Requests :
    /\ Len(sent[r]) <= 2
    /\ \A i \in 1..Len(sent[r]) :
         sent[r][i].kind = "text" => i = 2 /\ sent[r][1].kind = "photo"
    /\ (pc[r] = "send_text" => Len(sent[r]) = 1 /\ IsKind(r, 1, "photo"))
    /\ (raised[r] = "photo" => sent[r] = <<>> /\ pc[r] # "send_text")

\* C11 witness: one request delivered photo then text, another had its photo
\* send raise and has been answered.
C11_Witness ==
  /\ \E r \in Requests : IsKind(r, 1, "photo") /\ IsKind(r, 2, "text")
  /\ \E r \in Requests : raised[r] = "photo" /\ Done(r) /\ sent[r] = <<>>

\* The Analyzer of request r returned text extracted from a 200 response.
ReturnedText(r) ==
  inferred[r].kind = "response" /\ inferred[r].status = 200 /\ inferred[r].parsable

\* The handler of request r is in, or ended by, its analysis-failure branch.
AbortedAtAnalysis(r) ==
  \/ pc[r] \in {"rm_analysis", "resp_analysis"}
  \/ response[r] = AnalysisFailed
  \/ (response[r] = Fault /\ rmCalls[r] = 1 /\ ~Truthy(analysis[r])
        /\ Allowed(GuessType(filepath(r))))

Successors(l) ==
  CASE l = "received"   -> {"open", "done"}
    [] l = "open"       -> {"write", "done"}
    [] l = "write"      -> {"read", "rm_content", "done"}
    [] l = "read"       -> {"infer", "rm_analysis"}
    [] l = "infer"      -> {"send_photo", "rm_analysis", "rm_delivery"}
    [] l = "send_photo" -> {"send_text", "rm_delivery"}
    [] l = "send_text"  -> {"rm_success", "rm_delivery"}
    [] l = "rm_content"  -> {"resp_content", "done"}
    [] l = "rm_analysis" -> {"resp_analysis", "done"}
    [] l = "rm_delivery" -> {"resp_delivery", "done"}
    [] l = "rm_success"  -> {"resp_success", "done"}
    [] l \in RespondLabels -> {"done"}
    [] OTHER -> {}

\* C13: every step of a request moves it to a directly following position
\* (no stage skipped or revisited, a failure leads only to cleanup and the
\* response); the inference call is issued only by a request whose file is
\* written and passed both type checks; the photo is sent only by a request
\* whose one inference call returned a text; the text after the photo; and the
\* removal of the success path runs only after both deliveries.
C13_StagesInOrder ==
  [][ \A r \in Requests :
        /\ pc'[r] # pc[r] => pc'[r] \in Successors(pc[r])
        /\ calls'[r] # calls[r]
             => /\ pc[r] = "infer" /\ calls[r] = 0 /\ persisted[r]
                /\ Allowed(declared[r]) /\ Allowed(GuessType(filepath(r)))
                /\ sent[r] = <<>> /\ rmCalls[r] = 0
        /\ sent'[r] # sent[r]
             => /\ calls[r] = 1 /\ ReturnedText(r) /\ Truthy(analysis[r])
                /\ rmCalls[r] = 0
                /\ \/ pc[r] = "send_photo" /\ sent[r] = <<>>
                   \/ pc[r] = "send_text" /\ Len(sent[r]) = 1
        /\ (rmCalls'[r] # rmCalls[r] /\ pc[r] = "rm_success")
             => Len(sent[r]) = 2 /\ raised[r] = ""
        /\ (rmCalls'[r] # rmCalls[r]) => persisted[r]
    ]_vars

\* C13 witness: a request that went through every stage and was answered 200.
C13_Witness ==
  \E r \in Requests :
    /\ response[r] = Success /\ persisted[r] /\ calls[r] = 1
    /\ Len(sent[r]) = 2 /\ rmCalls[r] = 1

\* The other requests that get past the declared-type check and address the
\* storage path of r.
Sharers(r) ==
  { q \in Requests \ {r} : Allowed(declared[q]) /\ filepath(q) = filepath(r) }

\* The Analyzer of r found the stored file missing (main.py:124 raised).
AnalyzerMissed(r) ==
  /\ persisted[r] /\ Allowed(GuessType(filepath(r)))
  /\ pc[r] # "read" /\ encoded[r] = None

\* The Notifier of r found the stored file missing (main.py:180 raised).
NotifierMissed(r) ==
  /\ Truthy(analysis[r]) /\ pc[r] # "send_photo"
  /\ sent[r] = <<>> /\ raised[r] = ""

\* The Analyzer of r read bytes that r did not upload.
AnalyzerReadForeign(r) ==
  encoded[r] # None /\ encoded[r][1] # content[r]

\* The Notifier of r sent a photo whose bytes r did not upload.
NotifierReadForeign(r) ==
  IsKind(r, 1, "photo") /\ sent[r][1].body # content[r]

\* C14: the hazard is that of a shared path.  Whenever the Analyzer or the
\* Notifier of a request reads bytes the request did not upload, these are
\* the bytes of another request that opened the same storage path (or the
\* file as that request's open truncated it); whenever it finds the file
\* missing, another request on the same path removed it.  The witness shows
\* that both happen.
C14_HazardIsThatOfTheSharedPath ==
  \A r \in Requests :
    /\ AnalyzerReadForeign(r)
         => \E q \in Sharers(r) : fd[q] # 0 /\ encoded[r][1] \in {"", content[q]}
    /\ NotifierReadForeign(r)
         => \E q \in Sharers(r) : fd[q] # 0 /\ sent[r][1].body \in {"", content[q]}
    /\ (AnalyzerMissed(r) \/ NotifierMissed(r))
         => \E q \in Sharers(r) : rmDone[q] = 1

\* C14 witness: of two requests with the same storage path, one had its
\* Analyzer read the bytes the other uploaded, and the other found the file
\* already removed by the first.
C14_Witness ==
  \E r, q \in Requests :
    /\ r # q /\ filepath(r) = filepath(q)
    /\ content[r] # content[q] /\ encoded[r] = Some(content[q])
    /\ rmDone[r] = 1
    /\ (AnalyzerMissed(q) \/ NotifierMissed(q))

\* No other request has a client name with the same final component as r's.
DistinctNames(r) ==
  \A q \in Requests \ {r} : Basename(filename[q]) # Basename(filename[r])

\* The response upload_image gives when run alone on r's inputs with r's
\* outcomes of the write, the inference call and the sends.
SoloResponse(r) ==
  IF ~Allowed(declared[r]) THEN InvalidFormat
  ELSE IF IsDirectory(filepath(r)) THEN Fault
  ELSE IF ~persisted[r] THEN Fault
  ELSE IF ~Allowed(GuessType(filepath(r))) THEN InvalidContent
  ELSE IF ~Truthy(AnalyzerResult(inferred[r])) THEN AnalysisFailed
  ELSE IF raised[r] # "" THEN DeliveryFailed
  ELSE Success

\* The messages that run delivers.
SoloSent(r) ==
  LET ph == [kind |-> "photo", body |-> content[r]]
      tx == [kind |-> "text", body |-> inferred[r].text]
  IN  IF SoloResponse(r) = Success THEN <<ph, tx>>
      ELSE IF SoloResponse(r) = DeliveryFailed /\ raised[r] = "text" THEN <<ph>>
      ELSE <<>>

\* C15: a request whose storage filename no other request has opens only a
\* file of its own, reads only the bytes it uploaded, has every removal it
\* calls succeed, and ends with the response and the messages of a run alone
\* on the same inputs and outcomes; and a step of any request changes the
\* storage at that request's own path only.
C15_DistinctNamesIndependent ==
  /\ [] \A r \in Requests :
          DistinctNames(r)
            => /\ fd[r] \in {0, r} /\ photo[r] \in {0, r}
               /\ \A p \in Paths : fs[p] = r => p = filepath(r)
               /\ encoded[r] \in {None, Some(content[r])}
               /\ rmDone[r] = rmCalls[r]
               /\ ~AnalyzerMissed(r) /\ ~NotifierMissed(r)
               /\ Done(r) => /\ response[r] = SoloResponse(r)
                              /\ sent[r] = SoloSent(r)
  /\ [][ \A r \in Requests :
            pc'[r] # pc[r]
              => /\ \A p \in Paths : fs'[p] # fs[p] => p = filepath(r)
                 /\ \A i \in Requests :
                      data'[i] # data[i] => i \in {fd'[r], fs[filepath(r)]}
        ]_vars

\* C15 witness: two requests with distinct storage filenames both went all
\* the way to a 200 response.
C15_Witness ==
  \E r, q \in Requests :
    /\ r # q /\ DistinctNames(r)
    /\ response[r] = Success /\ response[q] = Success

\* Path p names an entry directly inside the upload folder: the folder, a
\* separator, and one name that is not empty, holds no separator and is
\* neither "." nor "..".
InsideUploads(p) ==
  LET n == Len(UPLOAD_FOLDER) + 1
      c == SubSeq(p, n + 1, Len(p))
  IN  /\ Len(p) > n
      /\ SubSeq(p, 1, n) = UPLOAD_FOLDER \o <<"/">>
      /\ \A i \in 1..Len(c) : c[i] # "/"
      /\ c \notin { <<".">>, <<"..">> }

\* C16 (as claimed): whatever name the client supplied, the path a request
\* opens, writes and removes is a file name directly inside the upload
\* folder, never the folder itself or a path outside it.
C16_PathInsideUploads ==
  \A r \in Requests :
    pc[r] \notin {"received", "done"} => InsideUploads(filepath(r))

\* Sends of kind k that request r has attempted and seen finish.
Attempts(r, k) ==
  Cardinality({ i \in 1..Len(sent[r]) : sent[r][i].kind = k })
    + (IF raised[r] = k THEN 1 ELSE 0)

\* C17: a request calls the inference endpoint at most once and attempts the
\* photo send and the text send at most once each (an attempt that is pending
\* is the first); and once a stage failed no later stage runs: nothing is
\* called after a rejected type or a failed write, no message is sent after a
\* failed analysis, no text after a failed photo send.
C17_NoRetry ==
  \A r \in Requests :
    /\ calls[r] <= 1 /\ Attempts(r, "photo") <= 1 /\ Attempts(r, "text") <= 1
    /\ (pc[r] = "infer" => calls[r] = 0)
    /\ (pc[r] = "send_photo" => Attempts(r, "photo") = 0)
    /\ (pc[r] = "send_text" => Attempts(r, "text") = 0)
    /\ ( (~Allowed(declared[r]) \/ ~Allowed(GuessType(filepath(r)))
          \/ (Done(r) /\ ~persisted[r]))
          => calls[r] = 0 /\ Attempts(r, "photo") = 0 /\ Attempts(r, "text") = 0 )
    /\ (AbortedAtAnalysis(r)
          => Attempts(r, "photo") = 0 /\ Attempts(r, "text") = 0)
    /\ (raised[r] = "photo" => Attempts(r, "text") = 0)
    /\ (raised[r] # "" => pc[r] \notin {"infer", "send_photo", "send_text"})

\* C17 witness: one request ended after its single inference call timed
\* out, another after its single photo send raised.
C17_Witness ==
  /\ \E r \in Requests :
       Done(r) /\ inferred[r].kind = "timeout" /\ calls[r] = 1 /\ sent[r] = <<>>
  /\ \E r \in Requests :
       Done(r) /\ raised[r] = "photo" /\ Attempts(r, "photo") = 1

\* C18: a request answered 200 delivered exactly a photo and then a text, no
\* send of it raised, and the text is the string its Analyzer returned from
\* the 200 answer of the inference endpoint; a request answered 400 made no
\* inference call and attempted no send.
C18_ResponsesMeanWhatTheySay ==
  \A r \in Requests :
    /\ response[r].status = 200
         => /\ response[r] = Success
            /\ Len(sent[r]) = 2 /\ raised[r] = ""
            /\ IsKind(r, 1, "photo") /\ IsKind(r, 2, "text")
            /\ ReturnedText(r)
            /\ analysis[r] = Some(inferred[r].text)
            /\ sent[r][2].body = inferred[r].text
    /\ response[r].status = 400
         => /\ response[r] \in {InvalidFormat, InvalidContent}
            /\ calls[r] = 0 /\ inferred[r] = NoInference
            /\ Attempts(r, "photo") = 0 /\ Attempts(r, "text") = 0

\* C18 witness: one request answered 200 after delivering the analysis text,
\* another answered 400 after its file was stored.
C18_Witness ==
  /\ \E r \in Requests :
       response[r].status = 200 /\ sent[r][2].body = "detected: no"
  /\ \E r \in Requests :
       response[r].status = 400 /\ persisted[r]

\* One step of request r.
Step(r) ==
  \/ Validate(r) \/ OpenFile(r) \/ WriteFile(r) \/ ReadImage(r) \/ Infer(r)
  \/ SendPhoto(r) \/ SendText(r) \/ Remove(r) \/ Respond(r)

\* The event loop resumes every coroutine whose awaited call has finished,
\* and every external call finishes (returns or raises).
FairSpec == Spec /\ \A r \in Requests : WF_vars(Step(r))

\* Every request terminates.
Termination == <>(\A r \in Requests : Done(r))

\* C19 (as claimed, its final result): once every request has terminated, the
\* transient storage holds no file.
C19_NoResidueWhenAllDone ==
  (\A r \in Requests : Done(r)) => \A p \in Paths : fs[p] = 0

====
